---- MODULE Spec2Model ----
(***************************************************************************)
(* Model of avatar2/protocols/armv7m_interrupt.py: ARMV7MInterruptProtocol  *)
(* One caller thread drives the public methods; the listener thread is      *)
(* Thread.run(); the emulator is the peer on the two POSIX message queues.  *)
(***************************************************************************)
EXTENDS Integers, Sequences, FiniteSets, TLC

\* ------------------------------------------------------------------ bounds
\* payloads the emulator puts on the rx queue over a run
MaxMsgs == 2
\* remote commands recorded by the monitor over a run
MaxCmds == 2
\* responses that reach the tx queue over a run
MaxSends == 1

\* ------------------------------------------------------------ wire records
None == "None"
ValueError == "ValueError"

\* little-endian bytes of v in a field of n bytes (ctypes native layout)
RECURSIVE LeBytes(_, _)
LeBytes(v, n) ==
    IF n = 0 THEN <<>> ELSE <<v % 256>> \o LeBytes(v \div 256, n - 1)

\* value of a little-endian byte string
RECURSIVE LeValue(_)
LeValue(b) ==
    IF b = <<>> THEN 0 ELSE Head(b) + 256 * LeValue(Tail(b))

\* field widths of V7MInterruptExitReq: c_uint64 id, c_uint32 num_irq, c_uint32 type
V7MInterruptExitReq_fields == <<8, 4, 4>>

sizeof_V7MInterruptExitReq ==
    V7MInterruptExitReq_fields[1] + V7MInterruptExitReq_fields[2]
        + V7MInterruptExitReq_fields[3]

\* the bytes of a request record as the emulator writes it
V7MInterruptExitReq_bytes(r) ==
    LeBytes(r.id, V7MInterruptExitReq_fields[1])
        \o LeBytes(r.num_irq, V7MInterruptExitReq_fields[2])
        \o LeBytes(r.type, V7MInterruptExitReq_fields[3])

\* a mutant of the decoder: num_irq and type read from each other's offset
from_buffer_copy_swapped(buf) ==
    IF Len(buf) < sizeof_V7MInterruptExitReq
    THEN [err |-> ValueError]
    ELSE [err     |-> None,
          id      |-> LeValue(SubSeq(buf, 1, 8)),
          num_irq |-> LeValue(SubSeq(buf, 13, 16)),
          type    |-> LeValue(SubSeq(buf, 9, 12))]

\* V7MInterruptExitReq.from_buffer_copy(buf): raises ValueError on a buffer
\* shorter than the record, reads the leading sizeof bytes otherwise
from_buffer_copy(buf) ==
    IF Len(buf) < sizeof_V7MInterruptExitReq
    THEN [err |-> ValueError]
    ELSE [err     |-> None,
          id      |-> LeValue(SubSeq(buf, 1, 8)),
          num_irq |-> LeValue(SubSeq(buf, 9, 12)),
          type    |-> LeValue(SubSeq(buf, 13, 16))]

\* RemoteInterruptExitMessage(origin, id, type, num_irq) as constructed in run()
RemoteInterruptExitMessage(origin, id, type, num_irq) ==
    [origin |-> origin, id |-> id, type |-> type, num_irq |-> num_irq]

\* ------------------------------------------------------------------ inputs
\* requests the emulator emits (id, irq line, exception-return type)
Reqs == { [id |-> 1,   num_irq |-> 5, type |-> 1],
          [id |-> 258, num_irq |-> 6, type |-> 65529] }

\* a payload cut off inside the record
ShortPayload == SubSeq(V7MInterruptExitReq_bytes([id |-> 1, num_irq |-> 5, type |-> 1]), 1, 12)

Payloads == { V7MInterruptExitReq_bytes(r) : r \in Reqs } \cup { ShortPayload }

\* (id, success) arguments of send_interrupt_exit_response calls
SendArgs == { <<258, 1>>, <<1, 0>> }

Irqs == {7}
Cpus == {0, 1}
\* positional arguments of inject_interrupt calls, cpu_number given or omitted
InjectArgs == { <<i>> : i \in Irqs } \cup { <<i, c>> : i \in Irqs, c \in Cpus }

Chans == {"rx", "tx"}

\* constructor arguments
rx_queue_name == "rx"
tx_queue_name == "tx"
rmem_rx_qname == "rmem_rx"
rmem_tx_qname == "rmem_tx"
Origin == "origin"

VARIABLES
    originIsQemu,   \* isinstance(self._origin, QemuTarget)
    rxQueue,        \* self._rx_queue: None, or an "open"/"closed" descriptor
    txQueue,        \* self._tx_queue
    close,          \* self._close  (Event)
    closed,         \* self._closed (Event)
    listenerPc,     \* position of the thread running run()
    request,        \* run(): local request (payload bytes, <<>> for None)
    req_struct,     \* run(): local req_struct
    avatarQueue,    \* origin.avatar.queue, oldest first
    rxChan,         \* payloads waiting in the rx message queue
    sent,           \* number of payloads the emulator has sent
    delivered,      \* payloads receive() has returned so far, in order
    mqExists,       \* which queue names exist in the system
    commands,       \* commands executed by origin.protocols.monitor
    callerPc,       \* position of the caller thread
    op,             \* method the caller is in, or was last in
    args,           \* arguments of that call
    result,         \* outcome of the last completed call
    trail,          \* calls completed since the last successful enable
    txChan,         \* payloads sent on the tx message queue, in order
    attempts,       \* send() calls made on the tx queue by the current call
    avatarFull,     \* the avatar queue has no room for another message
    stopped         \* a shutdown() call has returned

vars == <<originIsQemu, rxQueue, txQueue, close, closed, listenerPc, request,
          req_struct, avatarQueue, rxChan, sent, delivered, mqExists,
          commands, callerPc, op, args, result, trail, txChan, attempts,
          avatarFull, stopped>>

protoVars == <<rxQueue, txQueue, close, closed>>
listenerVars == <<listenerPc, request, req_struct, avatarQueue, delivered>>
envVars == <<rxChan, sent, mqExists>>
callVars == <<callerPc, op, args, result, trail>>
sendVars == <<txChan, attempts>>

\* __init__ (lines 45-60)
Init ==
    /\ originIsQemu \in BOOLEAN
    /\ rxQueue = None
    /\ txQueue = None
    /\ close = FALSE
    /\ closed = FALSE
    /\ listenerPc = "initial"
    /\ request = <<>>
    /\ req_struct = None
    /\ avatarQueue = <<>>
    /\ rxChan = <<>>
    /\ sent = 0
    /\ delivered = <<>>
    /\ mqExists = [c \in Chans |-> FALSE]
    /\ commands = <<>>
    /\ callerPc = "idle"
    /\ op = None
    /\ args = None
    /\ result = None
    /\ trail = "none"
    /\ txChan = <<>>
    /\ attempts = 0
    /\ avatarFull = FALSE
    /\ stopped = FALSE

\* ------------------------------------------------------------- environment
\* the emulator sends a payload on the queue this side reads; the queue is
\* there while its name exists or this side holds it open
PeerSend(p) ==
    /\ sent < MaxMsgs
    /\ mqExists[rx_queue_name] \/ rxQueue = "open"
    /\ rxChan' = Append(rxChan, p)
    /\ sent' = sent + 1
    /\ UNCHANGED <<originIsQemu, sendVars, avatarFull, stopped,
                   protoVars, listenerVars, mqExists, commands,
                   callVars>>

\* the emulator creates one of the named queues
PeerCreate(c) ==
    /\ ~mqExists[c]
    /\ mqExists' = [mqExists EXCEPT ![c] = TRUE]
    /\ UNCHANGED <<originIsQemu, sendVars, avatarFull, stopped,
                   protoVars, listenerVars, rxChan, sent,
                   commands, callVars>>

\* the emulator removes one of the named queues
PeerUnlink(c) ==
    /\ mqExists[c]
    /\ mqExists' = [mqExists EXCEPT ![c] = FALSE]
    /\ UNCHANGED <<originIsQemu, sendVars, avatarFull, stopped,
                   protoVars, listenerVars, rxChan, sent,
                   commands, callVars>>

\* other producers fill the shared avatar queue up to its capacity
AvatarQueueFills ==
    /\ ~avatarFull
    /\ avatarFull' = TRUE
    /\ UNCHANGED <<originIsQemu, sendVars, stopped, protoVars, listenerVars,
                   envVars, commands, callVars>>

\* the orchestrator takes messages off the avatar queue
AvatarQueueDrains ==
    /\ avatarFull
    /\ avatarFull' = FALSE
    /\ UNCHANGED <<originIsQemu, sendVars, stopped, protoVars, listenerVars,
                   envVars, commands, callVars>>

\* ------------------------------------------------------- posix_ipc outcomes
\* MessageQueue(name, flags) without O_CREAT: fails when the name does not
\* exist, and may fail (permissions, limits) when it does
MessageQueue(name) ==
    IF mqExists[name] THEN {"open", "Exception"} ELSE {"Exception"}

\* MessageQueue.unlink(): removes the name, ExistentialError when it is absent,
\* another error (permissions) otherwise
unlink(name) ==
    IF mqExists[name] THEN {"ok", "OtherError"} ELSE {"ExistentialError"}

\* MessageQueue.close(): a descriptor closes once, a second close raises
\* ExistentialError
mq_close(q) ==
    IF q = "open" THEN "ok" ELSE "ExistentialError"

\* ---------------------------------------------------------------- listener
\* run(), lines 63-65 and 67: test the stop signal at the loop head
ListenerCheck ==
    /\ listenerPc = "check"
    /\ IF close
       THEN listenerPc' = "exit" /\ UNCHANGED request
       ELSE listenerPc' = "recv" /\ request' = <<>>
    /\ UNCHANGED <<originIsQemu, sendVars, avatarFull, stopped,
                   protoVars, req_struct, avatarQueue, delivered,
                   envVars, commands, callVars>>

\* a mutant of the receive: an exception leaves the loop instead of
\* continuing it
ListenerReceiveBreaks ==
    /\ listenerPc = "recv"
    /\ IF rxQueue = "open" /\ rxChan # <<>>
       THEN /\ request' = Head(rxChan)
            /\ rxChan' = Tail(rxChan)
            /\ delivered' = Append(delivered, Head(rxChan))
            /\ listenerPc' = "decode"
       ELSE /\ listenerPc' = "exit"
            /\ UNCHANGED <<request, rxChan, delivered>>
    /\ UNCHANGED <<originIsQemu, sendVars, avatarFull, stopped, protoVars,
                   req_struct, avatarQueue, sent, mqExists, commands, callVars>>

\* run(), lines 68-71: receive(0.5); any exception (timeout, closed
\* descriptor) goes back to the loop head
ListenerReceive ==
    /\ listenerPc = "recv"
    /\ IF rxQueue = "open" /\ rxChan # <<>>
       THEN /\ request' = Head(rxChan)
            /\ rxChan' = Tail(rxChan)
            /\ delivered' = Append(delivered, Head(rxChan))
            /\ listenerPc' = "decode"
       ELSE /\ listenerPc' = "check"
            /\ UNCHANGED <<request, rxChan, delivered>>
    /\ UNCHANGED <<originIsQemu, sendVars, avatarFull, stopped,
                   protoVars, req_struct, avatarQueue, sent,
                   mqExists, commands, callVars>>

\* run(), line 73: decode outside any try block; the ValueError of a short
\* payload ends the thread before line 82
ListenerDecode ==
    /\ listenerPc = "decode"
    /\ LET s == from_buffer_copy(request) IN
         IF s.err = ValueError
         THEN listenerPc' = "dead" /\ UNCHANGED req_struct
         ELSE listenerPc' = "put" /\ req_struct' = s
    /\ UNCHANGED <<originIsQemu, sendVars, avatarFull, stopped,
                   protoVars, request, avatarQueue, delivered,
                   envVars, commands, callVars>>

\* run(), lines 75-80: build the message and put it on the avatar queue;
\* put() with its default arguments waits, without timeout, for room
ListenerPut ==
    /\ listenerPc = "put"
    /\ ~avatarFull
    /\ avatarQueue' = Append(avatarQueue,
                             RemoteInterruptExitMessage(Origin, req_struct.id,
                                                        req_struct.type,
                                                        req_struct.num_irq))
    /\ listenerPc' = "check"
    /\ UNCHANGED <<originIsQemu, sendVars, avatarFull, stopped,
                   protoVars, request, req_struct, delivered,
                   envVars, commands, callVars>>

\* run(), line 82: signal completion after leaving the loop
ListenerExit ==
    /\ listenerPc = "exit"
    /\ closed' = TRUE
    /\ listenerPc' = "done"
    /\ UNCHANGED <<originIsQemu, sendVars, avatarFull, stopped,
                   rxQueue, txQueue, close, request, req_struct,
                   avatarQueue, delivered, envVars, commands, callVars>>

\* ------------------------------------------------------------------ caller
\* the commands sent to the monitor
\* a mutant of the enable command: each queue name under its own key
EnableIrqCmdStraight ==
    [name |-> "avatar-armv7m-enable-irq",
     args |-> [irq_rx_queue_name  |-> rx_queue_name,
               irq_tx_queue_name  |-> tx_queue_name,
               rmem_rx_queue_name |-> rmem_tx_qname,
               rmem_tx_queue_name |-> rmem_rx_qname]]

EnableIrqCmd ==
    [name |-> "avatar-armv7m-enable-irq",
     args |-> [irq_rx_queue_name  |-> tx_queue_name,
               irq_tx_queue_name  |-> rx_queue_name,
               rmem_rx_queue_name |-> rmem_tx_qname,
               rmem_tx_queue_name |-> rmem_rx_qname]]

\* a mutant of the inject command: the two parameters under each other's key
InjectIrqCmdSwapped(interrupt_number, cpu_number) ==
    [name |-> "avatar-armv7m-inject-irq",
     args |-> [num_irq |-> cpu_number, num_cpu |-> interrupt_number]]

InjectIrqCmd(interrupt_number, cpu_number) ==
    [name |-> "avatar-armv7m-inject-irq",
     args |-> [num_irq |-> interrupt_number, num_cpu |-> cpu_number]]

\* inject_interrupt's parameters bound from a call's positional arguments:
\* cpu_number defaults to 0 (line 128)
inject_interrupt_params(argv) ==
    [interrupt_number |-> argv[1],
     cpu_number |-> IF Len(argv) < 2 THEN 0 ELSE argv[2]]

\* the caller enters enable_interrupts()
CallEnable ==
    /\ callerPc = "idle"
    /\ Len(commands) < MaxCmds
    /\ callerPc' = "en_cmd"
    /\ op' = "enable_interrupts"
    /\ args' = None
    /\ result' = None
    /\ trail' = "none"
    /\ UNCHANGED <<originIsQemu, sendVars, avatarFull, stopped,
                   protoVars, listenerVars, envVars, commands>>

\* a mutant of the target check: the command is sent to any target
EnableCommandUnchecked ==
    /\ callerPc = "en_cmd"
    /\ commands' = Append(commands, EnableIrqCmd)
    /\ callerPc' = "en_open_rx"
    /\ UNCHANGED <<originIsQemu, sendVars, avatarFull, stopped,
                   protoVars, listenerVars, envVars, op, args,
                   result, trail>>

\* enable_interrupts(), lines 90-105: the target check and the enable command
EnableCommand ==
    /\ callerPc = "en_cmd"
    /\ IF originIsQemu
       THEN /\ commands' = Append(commands, EnableIrqCmd)
            /\ callerPc' = "en_open_rx"
            /\ UNCHANGED result
       ELSE /\ result' = "raised"
            /\ callerPc' = "idle"
            /\ UNCHANGED commands
    /\ UNCHANGED <<originIsQemu, sendVars, avatarFull, stopped,
                   protoVars, listenerVars, envVars, op, args,
                   trail>>

\* a mutant of the rx open: a failure is logged and enable goes on
EnableOpenRxIgnored ==
    /\ callerPc = "en_open_rx"
    /\ \E q \in MessageQueue(rx_queue_name) :
         IF q = "open" THEN rxQueue' = "open" ELSE UNCHANGED rxQueue
    /\ callerPc' = "en_open_tx"
    /\ UNCHANGED <<originIsQemu, sendVars, avatarFull, stopped,
                   txQueue, close, closed, listenerVars, envVars,
                   commands, op, args, result, trail>>

\* enable_interrupts(), lines 107-112: open the rx queue, False on failure
EnableOpenRx ==
    /\ callerPc = "en_open_rx"
    /\ \E q \in MessageQueue(rx_queue_name) :
         IF q = "open"
         THEN /\ rxQueue' = "open"
              /\ callerPc' = "en_open_tx"
              /\ UNCHANGED result
         ELSE /\ result' = "False"
              /\ callerPc' = "idle"
              /\ UNCHANGED rxQueue
    /\ UNCHANGED <<originIsQemu, sendVars, avatarFull, stopped,
                   txQueue, close, closed, listenerVars, envVars,
                   commands, op, args, trail>>

\* a mutant of the tx open: the failure path returns without closing rx
EnableOpenTxLeaky ==
    /\ callerPc = "en_open_tx"
    /\ \E q \in MessageQueue(tx_queue_name) :
         IF q = "open"
         THEN /\ txQueue' = "open"
              /\ callerPc' = "en_start"
              /\ UNCHANGED result
         ELSE /\ result' = "False"
              /\ callerPc' = "idle"
              /\ UNCHANGED txQueue
    /\ UNCHANGED <<originIsQemu, sendVars, avatarFull, stopped,
                   rxQueue, close, closed, listenerVars, envVars,
                   commands, op, args, trail>>

\* enable_interrupts(), lines 114-120: open the tx queue; on failure close the
\* rx descriptor (the attribute keeps it) and return False
EnableOpenTx ==
    /\ callerPc = "en_open_tx"
    /\ \E q \in MessageQueue(tx_queue_name) :
         IF q = "open"
         THEN /\ txQueue' = "open"
              /\ callerPc' = "en_start"
              /\ UNCHANGED <<rxQueue, result>>
         ELSE /\ rxQueue' = "closed"
              /\ result' = "False"
              /\ callerPc' = "idle"
              /\ UNCHANGED txQueue
    /\ UNCHANGED <<originIsQemu, sendVars, avatarFull, stopped,
                   close, closed, listenerVars, envVars,
                   commands, op, args, trail>>

\* enable_interrupts(), lines 122-125: Thread.start() then True; start() on a
\* thread started before raises RuntimeError
EnableStart ==
    /\ callerPc = "en_start"
    /\ IF listenerPc = "initial"
       THEN /\ listenerPc' = "check"
            /\ result' = "True"
            /\ trail' = "enabled"
       ELSE /\ result' = "raised"
            /\ UNCHANGED <<listenerPc, trail>>
    /\ callerPc' = "idle"
    /\ UNCHANGED <<originIsQemu, sendVars, avatarFull, stopped,
                   protoVars, request, req_struct, avatarQueue,
                   delivered, envVars, commands, op, args>>

\* the caller enters inject_interrupt(*argv)
CallInject(argv) ==
    /\ callerPc = "idle"
    /\ Len(commands) < MaxCmds
    /\ callerPc' = "inject"
    /\ op' = "inject_interrupt"
    /\ args' = argv
    /\ result' = None
    /\ trail' = "none"
    /\ UNCHANGED <<originIsQemu, sendVars, avatarFull, stopped,
                   protoVars, listenerVars, envVars, commands>>

\* a mutant of inject_interrupt(): the command is sent to any target
InjectInterruptUnchecked ==
    /\ callerPc = "inject"
    /\ LET a == inject_interrupt_params(args) IN
         commands' = Append(commands,
                            InjectIrqCmd(a.interrupt_number, a.cpu_number))
    /\ result' = "returned"
    /\ callerPc' = "idle"
    /\ UNCHANGED <<originIsQemu, sendVars, avatarFull, stopped, protoVars,
                   listenerVars, envVars, op, args, trail>>

\* inject_interrupt(), lines 128-135
InjectInterrupt ==
    /\ callerPc = "inject"
    /\ IF originIsQemu
       THEN LET a == inject_interrupt_params(args) IN
              commands' = Append(commands,
                                 InjectIrqCmd(a.interrupt_number, a.cpu_number))
       ELSE UNCHANGED commands
    /\ result' = "returned"
    /\ callerPc' = "idle"
    /\ UNCHANGED <<originIsQemu, sendVars, avatarFull, stopped,
                   protoVars, listenerVars, envVars, op, args,
                   trail>>

\* field widths of V7MInterruptExitResp: c_uint64 id, c_uint32 success
V7MInterruptExitResp_fields == <<8, 4>>

\* V7MInterruptExitResp(id, success) as the bytes handed to send(): the two
\* fields, then zero padding up to the alignment of the 8-byte field
V7MInterruptExitResp(id, success) ==
    LET body == LeBytes(id, V7MInterruptExitResp_fields[1])
                    \o LeBytes(success, V7MInterruptExitResp_fields[2])
        pad == (V7MInterruptExitResp_fields[1]
                    - (Len(body) % V7MInterruptExitResp_fields[1]))
                   % V7MInterruptExitResp_fields[1]
    IN body \o [i \in 1..pad |-> 0]

\* MessageQueue.send(): may fail on an open descriptor (queue full with a
\* timeout, signal), always fails on a closed one
mq_send(q) ==
    IF q = "open" THEN {"ok", "Exception"} ELSE {"Exception"}

\* the caller enters send_interrupt_exit_response(id, success)
CallSend(argv) ==
    /\ callerPc = "idle"
    /\ Len(txChan) < MaxSends
    /\ callerPc' = "send"
    /\ op' = "send_interrupt_exit_response"
    /\ args' = argv
    /\ result' = None
    /\ trail' = "none"
    /\ attempts' = 0
    /\ UNCHANGED <<originIsQemu, txChan, avatarFull, stopped, protoVars,
                   listenerVars, envVars, commands>>

\* a mutant of the send: a failed send is tried once more
SendResponseRetried ==
    /\ callerPc = "send"
    /\ IF txQueue = None
       THEN result' = "False" /\ UNCHANGED <<txChan, attempts>>
       ELSE \E o \in mq_send(txQueue) :
              IF o = "ok"
              THEN /\ txChan' = Append(txChan,
                                       V7MInterruptExitResp(args[1], args[2]))
                   /\ attempts' = attempts + 1
                   /\ result' = "True"
              ELSE /\ attempts' = attempts + 2
                   /\ result' = "False"
                   /\ UNCHANGED txChan
    /\ callerPc' = "idle"
    /\ UNCHANGED <<originIsQemu, avatarFull, stopped, protoVars, listenerVars,
                   envVars, commands, op, args, trail>>

\* send_interrupt_exit_response(), lines 137-145: one send() inside the try;
\* any exception (also the AttributeError of a None _tx_queue) gives False
SendResponse ==
    /\ callerPc = "send"
    /\ IF txQueue = None
       THEN result' = "False" /\ UNCHANGED <<txChan, attempts>>
       ELSE /\ attempts' = attempts + 1
            /\ \E o \in mq_send(txQueue) :
                 IF o = "ok"
                 THEN /\ txChan' = Append(txChan,
                                          V7MInterruptExitResp(args[1], args[2]))
                      /\ result' = "True"
                 ELSE /\ result' = "False"
                      /\ UNCHANGED txChan
    /\ callerPc' = "idle"
    /\ UNCHANGED <<originIsQemu, avatarFull, stopped, protoVars, listenerVars,
                   envVars, commands, op, args, trail>>

\* the caller enters stop()
CallStop ==
    /\ callerPc = "idle"
    /\ callerPc' = "stop_set"
    /\ op' = "stop"
    /\ args' = None
    /\ result' = None
    /\ trail' = "none"
    /\ UNCHANGED <<originIsQemu, sendVars, avatarFull, stopped, protoVars,
                   listenerVars, envVars, commands>>

\* the caller enters shutdown()
CallShutdown ==
    /\ callerPc = "idle"
    /\ callerPc' = "stop_set"
    /\ op' = "shutdown"
    /\ args' = None
    /\ result' = None
    /\ UNCHANGED <<originIsQemu, sendVars, avatarFull, stopped,
                   protoVars, listenerVars, envVars, commands,
                   trail>>

\* stop(), line 85
StopSet ==
    /\ callerPc = "stop_set"
    /\ close' = TRUE
    /\ callerPc' = "stop_wait"
    /\ UNCHANGED <<originIsQemu, sendVars, avatarFull, stopped,
                   rxQueue, txQueue, closed, listenerVars,
                   envVars, commands, op, args, result, trail>>

\* a mutant of stop(): the wait is left out
StopWaitSkipped ==
    /\ callerPc = "stop_wait"
    /\ IF op = "stop"
       THEN callerPc' = "idle" /\ result' = "returned"
       ELSE callerPc' = "sd_rx" /\ UNCHANGED result
    /\ UNCHANGED <<originIsQemu, sendVars, avatarFull, stopped, protoVars,
                   listenerVars, envVars, commands, op, args, trail>>

\* stop(), line 86: wait() without timeout returns once _closed is set; a
\* stop() called directly returns to the caller, within shutdown() line 152
\* follows
StopWait ==
    /\ callerPc = "stop_wait"
    /\ closed
    /\ IF op = "stop"
       THEN callerPc' = "idle" /\ result' = "returned"
       ELSE callerPc' = "sd_rx" /\ UNCHANGED result
    /\ UNCHANGED <<originIsQemu, sendVars, avatarFull, stopped, protoVars,
                   listenerVars, envVars, commands, op, args, trail>>

\* shutdown(), lines 152-158: unlink, close and forget the rx queue; an
\* ExistentialError from unlink or close skips the rest of the try block, any
\* other exception leaves shutdown()
ShutdownRx ==
    /\ callerPc = "sd_rx"
    /\ IF rxQueue = None
       THEN /\ callerPc' = "sd_tx"
            /\ UNCHANGED <<rxQueue, mqExists, result, trail>>
       ELSE \E u \in unlink(rx_queue_name) :
              CASE u = "ok" ->
                     /\ mqExists' = [mqExists EXCEPT ![rx_queue_name] = FALSE]
                     /\ rxQueue' = IF mq_close(rxQueue) = "ok" THEN None
                                                             ELSE rxQueue
                     /\ callerPc' = "sd_tx"
                     /\ UNCHANGED <<result, trail>>
                [] u = "ExistentialError" ->
                     /\ callerPc' = "sd_tx"
                     /\ UNCHANGED <<rxQueue, mqExists, result, trail>>
                [] u = "OtherError" ->
                     /\ result' = "raised"
                     /\ trail' = "none"
                     /\ callerPc' = "idle"
                     /\ UNCHANGED <<rxQueue, mqExists>>
    /\ UNCHANGED <<originIsQemu, sendVars, avatarFull, stopped,
                   txQueue, close, closed, listenerVars, rxChan,
                   sent, commands, op, args>>

\* the next value of trail when a shutdown() call returns
TrailAfterShutdown ==
    CASE trail = "enabled" -> "shutdown1"
      [] trail = "shutdown1" -> "shutdown2"
      [] OTHER -> trail

\* shutdown(), lines 159-165: the same for the tx queue, then return
ShutdownTx ==
    /\ callerPc = "sd_tx"
    /\ IF txQueue = None
       THEN /\ result' = "returned"
            /\ trail' = TrailAfterShutdown
            /\ UNCHANGED <<txQueue, mqExists>>
       ELSE \E u \in unlink(tx_queue_name) :
              CASE u = "ok" ->
                     /\ mqExists' = [mqExists EXCEPT ![tx_queue_name] = FALSE]
                     /\ txQueue' = IF mq_close(txQueue) = "ok" THEN None
                                                             ELSE txQueue
                     /\ result' = "returned"
                     /\ trail' = TrailAfterShutdown
                [] u = "ExistentialError" ->
                     /\ result' = "returned"
                     /\ trail' = TrailAfterShutdown
                     /\ UNCHANGED <<txQueue, mqExists>>
                [] u = "OtherError" ->
                     /\ result' = "raised"
                     /\ trail' = "none"
                     /\ UNCHANGED <<txQueue, mqExists>>
    /\ callerPc' = "idle"
    /\ stopped' = (stopped \/ result' = "returned")
    /\ UNCHANGED <<originIsQemu, sendVars, avatarFull, rxQueue, close, closed,
                   listenerVars, rxChan, sent, commands, op, args>>

\* ----------------------------------------------------------- specification
Listener ==
    \/ ListenerCheck
    \/ ListenerReceive
    \/ ListenerDecode
    \/ ListenerPut
    \/ ListenerExit

Caller ==
    \/ EnableCommand
    \/ EnableOpenRx
    \/ EnableOpenTx
    \/ EnableStart
    \/ InjectInterrupt
    \/ StopSet
    \/ StopWait
    \/ ShutdownRx
    \/ ShutdownTx

Next ==
    \/ \E p \in Payloads : PeerSend(p)
    \/ \E c \in Chans : PeerCreate(c)
    \/ \E c \in Chans : PeerUnlink(c)
    \/ CallEnable
    \/ \E a \in InjectArgs : CallInject(a)
    \/ CallStop
    \/ CallShutdown
    \/ Caller
    \/ Listener

Spec == Init /\ [][Next]_vars

\* the same program with an avatar queue that other producers can fill
QueueNext ==
    \/ Next
    \/ AvatarQueueFills
    \/ AvatarQueueDrains

QueueSpec == Init /\ [][QueueNext]_vars

\* the same program and emulator with a caller that sends exit responses
\* instead of injecting interrupts
SendCaller ==
    \/ EnableCommand
    \/ EnableOpenRx
    \/ EnableOpenTx
    \/ EnableStart
    \/ SendResponse
    \/ StopSet
    \/ StopWait
    \/ ShutdownRx
    \/ ShutdownTx

SendNext ==
    \/ \E p \in Payloads : PeerSend(p)
    \/ \E c \in Chans : PeerCreate(c)
    \/ \E c \in Chans : PeerUnlink(c)
    \/ CallEnable
    \/ \E a \in SendArgs : CallSend(a)
    \/ CallStop
    \/ CallShutdown
    \/ SendCaller
    \/ Listener

SendSpec == Init /\ [][SendNext]_vars

\* ------------------------------------------------------------------ claims
\* the requests whose records the payloads ps are, in order; a payload that
\* is no request's record contributes nothing
RECURSIVE RequestsIn(_)
RequestsIn(ps) ==
    IF ps = <<>> THEN <<>>
    ELSE LET here == { r \in Reqs : V7MInterruptExitReq_bytes(r) = Head(ps) } IN
           (IF here = {} THEN <<>> ELSE << CHOOSE r \in here : TRUE >>)
               \o RequestsIn(Tail(ps))

\* payloads receive() has returned and run() has finished handling
Handled ==
    IF listenerPc \in {"decode", "put"}
    THEN SubSeq(delivered, 1, Len(delivered) - 1)
    ELSE delivered

\* C1: the events on the avatar queue are, one for one and in receive order,
\* the requests of the well-formed payloads the listener has received and
\* handled, each with the request's id, irq number and return type; nothing
\* else is ever pushed (a receive that returns no payload adds no event).
C1_EventsAreReceivedRequests ==
    LET reqs == RequestsIn(Handled) IN
      /\ Len(avatarQueue) = Len(reqs)
      /\ \A i \in 1..Len(reqs) :
           /\ avatarQueue[i].origin = Origin
           /\ avatarQueue[i].id = reqs[i].id
           /\ avatarQueue[i].num_irq = reqs[i].num_irq
           /\ avatarQueue[i].type = reqs[i].type

C1_Witness ==
    /\ Len(avatarQueue) = 2
    /\ avatarQueue[1].id = 258
    /\ avatarQueue[2].id = 1
    /\ listenerPc = "recv"

\* C2: a decode failure on an inbound payload never ends the listener: the
\* thread is never left dead by an exception.
C2_DecodeFailureNeverAborts ==
    listenerPc # "dead"

\* C3: a shutdown() on an instance whose listener was never started (enable
\* never called, or not completed) is never blocked for good: while it is in
\* progress the caller always has a step to take.
C3_ShutdownWithoutEnableReturns ==
    (op = "shutdown" /\ callerPc # "idle" /\ listenerPc = "initial")
        => ENABLED Caller

\* C4: after a successful enable_interrupts() and two shutdown() calls in
\* succession that both returned, the instance holds neither channel handle,
\* whatever the unlink calls returned.
C4_SecondShutdownReleasesChannels ==
    (trail = "shutdown2" /\ callerPc = "idle")
        => (result = "returned" /\ rxQueue = None /\ txQueue = None)

\* C5: after a successful enable_interrupts() (the listener was started) a
\* shutdown() in progress is never blocked for good: the caller or the
\* listener it waits for always has a step to take.
C5_ShutdownAfterEnableReturns ==
    (op = "shutdown" /\ callerPc # "idle" /\ listenerPc # "initial")
        => ENABLED (Caller \/ Listener)

\* C6: on a target that is no QemuTarget, enable_interrupts() ends at the
\* target check by raising, and that step issues no command, opens no channel
\* and starts no listener; such an instance never has a command, a channel
\* or a listener.
C6_UnsupportedTargetFailsHard ==
    /\ [](~originIsQemu =>
            /\ commands = <<>>
            /\ rxQueue = None /\ txQueue = None
            /\ listenerPc = "initial")
    /\ [][(~originIsQemu /\ callerPc = "en_cmd" /\ callerPc' # "en_cmd") =>
            /\ callerPc' = "idle"
            /\ result' = "raised"
            /\ UNCHANGED <<commands, protoVars, listenerVars, envVars>>]_vars

C6_Witness ==
    /\ ~originIsQemu
    /\ op = "enable_interrupts"
    /\ callerPc = "idle"
    /\ result = "raised"

\* C7: when enable_interrupts() has opened rx and the tx open fails, the step
\* that returns the failure closes the rx descriptor, returns False, and
\* neither opens tx nor starts a listener.
C7_TxFailureClosesRx ==
    [][(callerPc = "en_open_tx" /\ callerPc' = "idle") =>
         /\ rxQueue = "open"
         /\ rxQueue' = "closed"
         /\ result' = "False"
         /\ UNCHANGED <<txQueue, listenerVars>>]_vars

C7_Witness ==
    /\ op = "enable_interrupts"
    /\ callerPc = "idle"
    /\ result = "False"
    /\ rxQueue = "closed"
    /\ listenerPc = "initial"

\* C8: after an enable_interrupts() that returned False the instance holds no
\* channel handle, as after construction.
C8_FailedEnableHoldsNoChannel ==
    (op = "enable_interrupts" /\ callerPc = "idle" /\ result = "False")
        => (rxQueue = None /\ txQueue = None)

\* C9: on a QemuTarget, an enable_interrupts() that leaves from one of the
\* channel opens returns False (it does not raise), and one that returns
\* True has issued the enable command, holds both channels open and has
\* started the listener in its last step.
C9_EnableOutcome ==
    [][originIsQemu =>
         /\ (callerPc \in {"en_open_rx", "en_open_tx"} /\ callerPc' = "idle")
               => result' = "False"
         /\ (op = "enable_interrupts" /\ callerPc # "idle" /\ callerPc' = "idle"
                                      /\ result' = "True")
               => /\ \E i \in 1..Len(commands') :
                        commands'[i].name = "avatar-armv7m-enable-irq"
                  /\ rxQueue' = "open"
                  /\ txQueue' = "open"
                  /\ listenerPc = "initial"
                  /\ listenerPc' = "check"]_vars

C9_Witness ==
    /\ originIsQemu
    /\ op = "enable_interrupts"
    /\ callerPc = "idle"
    /\ result = "True"
    /\ rxQueue = "open"
    /\ txQueue = "open"

\* C10: on a QemuTarget the step of inject_interrupt(irq, cpu) appends exactly
\* the command avatar-armv7m-inject-irq {num_irq: irq, num_cpu: cpu} (cpu 0
\* when omitted) and changes neither the channel handles, the two signals,
\* the listener, the queues nor the channels' contents.
C10_InjectIssuesOneCommand ==
    [][(originIsQemu /\ callerPc = "inject" /\ callerPc' # "inject") =>
         /\ commands' = Append(commands,
                [name |-> "avatar-armv7m-inject-irq",
                 args |-> [num_irq |-> args[1],
                           num_cpu |-> IF Len(args) = 1 THEN 0 ELSE args[2]]])
         /\ UNCHANGED <<protoVars, listenerVars, envVars, txChan>>]_vars

C10_Witness ==
    /\ originIsQemu
    /\ op = "inject_interrupt"
    /\ callerPc = "idle"
    /\ result = "returned"
    /\ listenerPc \notin {"initial", "done", "dead"}
    /\ commands[Len(commands)].name = "avatar-armv7m-inject-irq"
    /\ commands[Len(commands)].args.num_cpu = 1

\* C11: the step of send_interrupt_exit_response(id, success) makes at most
\* one send() on the tx queue and ends with True or False, never an exception;
\* it returns True exactly when one payload carrying that id and success was
\* added to the tx queue, and with no tx queue it sends nothing and returns
\* False.
C11_SendOnce ==
    [][(callerPc = "send" /\ callerPc' # "send") =>
         /\ result' \in {"True", "False"}
         /\ attempts' <= 1
         /\ txQueue = None => (attempts' = 0 /\ result' = "False")
         /\ IF result' = "True"
            THEN /\ attempts' = 1
                 /\ Len(txChan') = Len(txChan) + 1
                 /\ SubSeq(txChan', 1, Len(txChan)) = txChan
                 /\ LET m == txChan'[Len(txChan')] IN
                      /\ LeValue(SubSeq(m, 1, 8)) = args[1]
                      /\ LeValue(SubSeq(m, 9, 12)) = args[2]
            ELSE txChan' = txChan]_vars

C11_Witness ==
    /\ op = "send_interrupt_exit_response"
    /\ callerPc = "idle"
    /\ result = "True"
    /\ Len(txChan) = 1
    /\ LeValue(SubSeq(txChan[1], 1, 8)) = 258
    /\ LeValue(SubSeq(txChan[1], 9, 12)) = 1

\* the listener thread is alive
ListenerRunning == listenerPc \in {"check", "recv", "decode", "put", "exit"}

\* C12: Stopped is terminal: once a shutdown() call has returned, no step of
\* any later call opens a channel for the instance or starts its listener.
C12_StoppedIsTerminal ==
    [][stopped =>
         /\ rxQueue' = "open" => rxQueue = "open"
         /\ txQueue' = "open" => txQueue = "open"
         /\ ListenerRunning' => ListenerRunning]_vars

\* C13: on a QemuTarget each enable_interrupts() call issues exactly one
\* command, avatar-armv7m-enable-irq, in its first step; the command gives
\* this side's tx name as irq_rx_queue_name and its rx name as
\* irq_tx_queue_name, that step opens no channel, and a channel is opened
\* only by a later step of the call, with that command the last one issued.
C13_EnableCommandReversed ==
    [][(originIsQemu /\ op = "enable_interrupts" /\ callerPc' # callerPc) =>
         /\ IF callerPc = "en_cmd"
            THEN /\ Len(commands') = Len(commands) + 1
                 /\ SubSeq(commands', 1, Len(commands)) = commands
                 /\ LET c == commands'[Len(commands')] IN
                      /\ c.name = "avatar-armv7m-enable-irq"
                      /\ c.args.irq_rx_queue_name = "tx"
                      /\ c.args.irq_tx_queue_name = "rx"
                 /\ UNCHANGED <<rxQueue, txQueue>>
            ELSE UNCHANGED commands
         /\ (rxQueue' # rxQueue \/ txQueue' # txQueue) =>
              /\ callerPc \in {"en_open_rx", "en_open_tx"}
              /\ commands[Len(commands)].name = "avatar-armv7m-enable-irq"]_vars

C13_Witness ==
    /\ originIsQemu
    /\ callerPc = "en_open_rx"
    /\ rxQueue = None
    /\ txQueue = None
    /\ Len(commands) = 1
    /\ commands[1].args.irq_rx_queue_name = "tx"

\* C14: stop() leaves its wait only when the listener has set _closed and
\* ended; an ended listener never receives or pushes again; and the steps of
\* shutdown() that unlink and close the channels are taken only with the
\* listener ended.
C14_StopWaitsForListener ==
    [][/\ (callerPc = "stop_wait" /\ callerPc' # "stop_wait")
             => (closed /\ listenerPc = "done")
       /\ listenerPc = "done"
             => UNCHANGED <<listenerPc, delivered, avatarQueue>>
       /\ (callerPc \in {"sd_rx", "sd_tx"} /\ callerPc' # callerPc)
             => listenerPc = "done"]_vars

C14_Witness ==
    /\ op = "stop"
    /\ callerPc = "idle"
    /\ result = "returned"
    /\ listenerPc = "done"
    /\ rxQueue = "open"
    /\ rxChan # <<>>

\* C15: from the return of a successful enable_interrupts() until stop() or
\* shutdown() is first called, the instance's listener thread is in its
\* polling loop.
C15_OneActiveListener ==
    (listenerPc # "initial" /\ ~close /\ callerPc # "stop_set")
        => listenerPc \in {"check", "recv", "decode", "put"}

\* C16: pushing an event never holds the listener: a listener that is to
\* push while the avatar queue is full still has a step to take, so it gets
\* back to the test of the stop signal whether or not the queue is drained.
C16_PushNeverBlocks ==
    (listenerPc = "put" /\ avatarFull) => ENABLED Listener

\* C17: whatever the unlink or close of the rx queue raises, shutdown() does
\* not raise there and goes on to the teardown of the tx queue.
C17_RxTeardownErrorsSuppressed ==
    [][(callerPc = "sd_rx" /\ callerPc' # "sd_rx")
          => (callerPc' = "sd_tx" /\ result' # "raised")]_vars

\* C18: _closed is set only if _close is set, and neither signal, once set,
\* is ever cleared.
C18_ClosedOnlyAfterClose ==
    /\ [](closed => close)
    /\ [][(close => close') /\ (closed => closed')]_vars

C18_Witness ==
    /\ close
    /\ closed
    /\ listenerPc = "done"

\* C19: on a target that is no QemuTarget the step of inject_interrupt()
\* returns normally, issues no command and changes no state of the instance
\* or its channels, whereas the first step of enable_interrupts() raises.
C19_InjectOnUnsupportedIsNoOp ==
    [][~originIsQemu =>
         /\ (callerPc = "inject" /\ callerPc' # "inject")
               => /\ result' = "returned"
                  /\ callerPc' = "idle"
                  /\ UNCHANGED <<commands, protoVars, listenerVars, envVars,
                                 txChan>>
         /\ (callerPc = "en_cmd" /\ callerPc' # "en_cmd")
               => result' = "raised"]_vars

C19_Witness ==
    /\ ~originIsQemu
    /\ op = "inject_interrupt"
    /\ callerPc = "idle"
    /\ result = "returned"
    /\ commands = <<>>

====
